---- MODULE Spec2Model ----
(***************************************************************************)
(* Model of the online inference service of ai-models/Deployment/main.py:  *)
(* metric acquisition, feature alignment, inference, the background        *)
(* prediction loop, the /predict-from-prometheus, /keda-metric, /health    *)
(* and /prometheus-metrics endpoints and the three exposition instruments; *)
(* and of the retry loop of query_prometheus in AI/Data_collector.py.      *)
(*                                                                         *)
(* Numbers.  Metric readings are integers.  Feature-vector entries are     *)
(* exact rationals [num, den] because cpu_memory_ratio divides by          *)
(* memory_usage + 1e-6.  A raw predictor output is a multiple of 1/RawDen, *)
(* written as its numerator.  Confidence is in hundredths (0.95 is 95).    *)
(***************************************************************************)
EXTENDS Integers, Sequences, FiniteSets, TLC

\* ------------------------------------------------------------------ bounds
MaxSchemaLen == 3
RawDen == 2
MaxRawNum == 5
MaxRuns == 2
MaxTime == 1
StreamLen == 2
MaxRetries == 3

\* ------------------------------------------------------- program constants
DefaultConfidence == 95
FallbackReplicas == 1
SleepSeconds == 30
EpsilonDen == 1000000

\* The six base metrics, in the order of the queries dict.
MetricNames == <<"cpu_usage", "memory_usage", "request_rate", "queue_length", "response_time", "active_connections">>

MetricNameSet == {MetricNames[i] : i \in 1..Len(MetricNames)}

\* ------------------------------------------------- the metrics store's answers
\* One HTTP answer of the store to one instant query.  transport is the
\* outcome of client.get (an exception unless "ok"), http_status what
\* raise_for_status looks at, body whether response.json() parses, status and
\* result the two fields query_metric reads; a sample is the text at
\* result[0]["value"][1], which float() either parses or rejects.
Sample(ok, v) == [parses |-> ok, value |-> v]

Answer(t, h, b, s, r) == [transport |-> t, http_status |-> h, body |-> b, status |-> s, result |-> r]

AnswerValue(v) == Answer("ok", 200, "json", "success", <<Sample(TRUE, v)>>)

AnswerUnreachable == Answer("connect_error", 0, "none", "none", <<>>)

AnswerTimeout == Answer("timeout", 0, "none", "none", <<>>)

AnswerHttpError == Answer("ok", 500, "garbage", "none", <<>>)

AnswerMalformed == Answer("ok", 200, "garbage", "none", <<>>)

AnswerStatusError == Answer("ok", 200, "json", "error", <<>>)

AnswerEmpty == Answer("ok", 200, "json", "success", <<>>)

AnswerBadSample == Answer("ok", 200, "json", "success", <<Sample(FALSE, 0)>>)

FailedAnswers == {AnswerUnreachable, AnswerTimeout, AnswerHttpError, AnswerMalformed, AnswerStatusError, AnswerEmpty, AnswerBadSample}

MetricValues == {0, 40, 512}

StoreAnswers == FailedAnswers \cup {AnswerValue(v) : v \in MetricValues}

\* query_metric: every exception inside the try is swallowed and the function
\* falls through to the 0.0 fallback; so does a non-success status or an
\* empty result.
query_metric_fallback_bug(a) ==
    IF a.transport # "ok" THEN -1
    ELSE IF a.http_status >= 400 THEN -1
    ELSE IF a.body # "json" THEN -1
    ELSE IF a.status = "success" /\ a.result # <<>>
         THEN (IF a.result[1].parses THEN a.result[1].value ELSE -1)
         ELSE -1

query_metric(a) ==
    IF a.transport # "ok" THEN 0
    ELSE IF a.http_status >= 400 THEN 0
    ELSE IF a.body # "json" THEN 0
    ELSE IF a.status = "success" /\ a.result # <<>>
         THEN (IF a.result[1].parses THEN a.result[1].value ELSE 0)
         ELSE 0

\* get_workload_metrics: one task per query in dict order, gathered in that
\* order and zipped back onto the names.  answers maps each metric name to
\* the store's answer to that metric's query.
get_workload_metrics_shifted(answers) ==
    LET results == [i \in 1..Len(MetricNames) |-> query_metric(answers[MetricNames[i]])]
    IN  [n \in MetricNameSet |->
            LET i == CHOOSE k \in 1..Len(MetricNames) : MetricNames[k] = n
            IN  results[(i % Len(MetricNames)) + 1]]

get_workload_metrics(answers) ==
    LET results == [i \in 1..Len(MetricNames) |-> query_metric(answers[MetricNames[i]])]
    IN  [n \in MetricNameSet |->
            LET i == CHOOSE k \in 1..Len(MetricNames) : MetricNames[k] = n
            IN  results[i]]

\* The same at the level of the GET requests.  stream is what the store would
\* answer to the first, second, ... GET of one query; query_metric_requests
\* is the answers query_metric consumes: line 86 is its only client.get and
\* is in no loop.
query_metric_requests_retry(stream) ==
    IF stream[1] \in FailedAnswers /\ Len(stream) >= 2 THEN <<stream[1], stream[2]>> ELSE <<stream[1]>>

query_metric_requests(stream) == <<stream[1]>>

\* One acquisition cycle: one query_metric task per entry of queries (line
\* 105); sent is the number of GETs of each query, snapshot what
\* get_workload_metrics returns from the answers the tasks ended on.
acquisition_cycle(streams) ==
    LET consumed == [n \in MetricNameSet |-> query_metric_requests(streams[n])]
    IN  [sent |-> [n \in MetricNameSet |-> Len(consumed[n])],
         snapshot |-> get_workload_metrics([n \in MetricNameSet |-> consumed[n][Len(consumed[n])]])]

\* ------------------------------------------------------------ feature vectors
Rat(n, d) == [num |-> n, den |-> d]

Flt(n) == Rat(n, 1)

\* metrics.cpu_usage / (metrics.memory_usage + 1e-6), exactly.
cpu_memory_ratio(metrics) == Rat(metrics["cpu_usage"] * EpsilonDen, metrics["memory_usage"] * EpsilonDen + 1)

DerivedNames == {"cpu_memory_ratio", "network_total"}

\* The dict `base` of build_feature_vector.
base(metrics) ==
    [n \in MetricNameSet \cup DerivedNames |->
        IF n \in MetricNameSet THEN Flt(metrics[n])
        ELSE IF n = "cpu_memory_ratio" THEN cpu_memory_ratio(metrics)
        ELSE Flt(metrics["request_rate"])]

build_feature_vector_drop_unknown(metrics, names) ==
    LET known == SelectSeq(names, LAMBDA f : f \in DOMAIN base(metrics))
    IN  [idx \in 1..Len(known) |-> base(metrics)[known[idx]]]

build_feature_vector_unknown_as_cpu(metrics, names) ==
    [idx \in 1..Len(names) |->
        IF names[idx] \in DOMAIN base(metrics) THEN base(metrics)[names[idx]]
        ELSE Flt(metrics["cpu_usage"])]

\* build_feature_vector: zeros of the schema's length, then every position
\* whose name is a key of base gets base's value.
build_feature_vector(metrics, names) ==
    [idx \in 1..Len(names) |->
        IF names[idx] \in DOMAIN base(metrics) THEN base(metrics)[names[idx]]
        ELSE Flt(0)]

\* ------------------------------------------------------------------ rounding
\* round() of a float, ties to the even integer; x is the numerator of
\* x / RawDen.
Round(x) ==
    LET f == x \div RawDen
        r == x % RawDen
    IN  IF 2 * r < RawDen THEN f
        ELSE IF 2 * r > RawDen THEN f + 1
        ELSE IF f % 2 = 0 THEN f ELSE f + 1

Max(a, b) == IF a >= b THEN a ELSE b

pods_unfloored(raw_pred) == Round(raw_pred)

pods_truncated(raw_pred) == Max(1, raw_pred \div RawDen)

\* pods = max(1, int(round(raw_pred)))
pods_of(raw_pred) == Max(1, Round(raw_pred))

\* ------------------------------------------------- model and schema loading
\* The value None of the global `model`.
None == [kind |-> "None", n_features |-> 0, exposes_n |-> FALSE, has_proba |-> FALSE]

\* A trained estimator as the service sees it: the number of features it was
\* fitted on, whether it exposes n_features_in_, whether it has predict_proba.
Estimator(n, e, p) == [kind |-> "estimator", n_features |-> n, exposes_n |-> e, has_proba |-> p]

\* What MODEL_PATH holds at startup: nothing joblib can load, or an estimator.
ModelFileMissing == [present |-> FALSE, estimator |-> None]

ModelFile(m) == [present |-> TRUE, estimator |-> m]

\* What MODEL_METADATA_PATH holds: no file, a file json.load or .get fails
\* on, or a json object with the two feature lists (an absent key reads as
\* the empty list, which is what .get's default gives).
Metadata(st, sel, fn) == [state |-> st, selected_features |-> sel, feature_names |-> fn]

\* _load_feature_names_from_metadata
load_feature_names_from_metadata(meta) ==
    IF meta.state = "missing" THEN <<>>
    ELSE IF meta.state = "unreadable" THEN <<>>
    ELSE IF meta.selected_features # <<>> THEN meta.selected_features
    ELSE meta.feature_names

SyntheticNames == <<"f_0", "f_1", "f_2", "f_3", "f_4", "f_5", "f_6", "f_7">>

\* [f"f_{i}" for i in range(num_features)]
synthetic_feature_names(num_features) == [i \in 1..num_features |-> SyntheticNames[i]]

\* load_model_and_features: the new values of the two globals, the returned
\* flag and the exception the except clause caught and logged ("none" when
\* the try ran through).  old_names is expected_feature_names before the
\* call, which a failing joblib.load leaves as it was.
load_model_and_features_keep_model(file, meta, old_names) ==
    IF ~file.present
    THEN [model |-> None, expected_feature_names |-> old_names, ok |-> FALSE, error |-> "model_file"]
    ELSE LET from_meta == load_feature_names_from_metadata(meta)
             names == IF from_meta # <<>> THEN from_meta
                      ELSE IF file.estimator.exposes_n
                           THEN synthetic_feature_names(file.estimator.n_features)
                           ELSE <<>>
         IN  IF names = <<>>
             THEN [model |-> file.estimator, expected_feature_names |-> names, ok |-> FALSE, error |-> "feature_names"]
             ELSE [model |-> file.estimator, expected_feature_names |-> names, ok |-> TRUE, error |-> "none"]

load_model_and_features(file, meta, old_names) ==
    IF ~file.present
    THEN [model |-> None, expected_feature_names |-> old_names, ok |-> FALSE, error |-> "model_file"]
    ELSE LET from_meta == load_feature_names_from_metadata(meta)
             names == IF from_meta # <<>> THEN from_meta
                      ELSE IF file.estimator.exposes_n
                           THEN synthetic_feature_names(file.estimator.n_features)
                           ELSE <<>>
         IN  IF names = <<>>
             THEN [model |-> None, expected_feature_names |-> names, ok |-> FALSE, error |-> "feature_names"]
             ELSE [model |-> file.estimator, expected_feature_names |-> names, ok |-> TRUE, error |-> "none"]

\* ------------------------------------------------------------- the predictor
\* What model.predict(feature_vector)[0] can do.  The estimator is opaque: it
\* returns a number, or raises ValueError (always when the vector's length is
\* not the number of features it was fitted on; possibly otherwise, as on a
\* non-finite input), or raises something else.
RawOutputs == (0 - MaxRawNum)..MaxRawNum

Returned(x) == [kind |-> "value", raw |-> x]

Raised(e) == [kind |-> e, raw |-> 0]

EstimatorBehaviours == {Returned(x) : x \in RawOutputs} \cup {Raised("ValueError"), Raised("RuntimeError")}

\* model.predict(feature_vector)[0]; behaviour is what the estimator does
\* with a vector of the length it was fitted on.
model_predict_coerced(m, feature_vector, behaviour) == behaviour

model_predict(m, feature_vector, behaviour) ==
    IF Len(feature_vector) # m.n_features THEN Raised("ValueError") ELSE behaviour

\* What float(np.max(model.predict_proba(feature_vector))) can do, in
\* hundredths: a probability, or an exception.
ProbaValues == {80}

ProbaOutcomes == {Returned(p) : p \in ProbaValues} \cup {Raised("RuntimeError")}

\* Confidence - best effort (lines 247-252).
confidence_of(m, proba) ==
    IF m.has_proba /\ proba.kind = "value" THEN proba.raw ELSE DefaultConfidence

\* ------------------------------------------------------ responses and errors
PredictionResponse(pods, confidence, timestamp, metrics) ==
    [kind |-> "PredictionResponse", predicted_pod_count |-> pods, confidence |-> confidence,
     timestamp |-> timestamp, metrics_used |-> metrics, model_version |-> "1.1.0"]

KEDAMetricResponse(value, timestamp) ==
    [kind |-> "KEDAMetricResponse", metric_value |-> value, timestamp |-> timestamp]

HTTPException(code) == [kind |-> "HTTPException", status_code |-> code]

\* Any exception that is not an HTTPException, on its way up the stack.
Unhandled(e) == [kind |-> "Exception", type |-> e]

Nothing == [kind |-> "Nothing"]

\* The three exposition instruments as one value.
Instruments(c, g, conf) == [counter |-> c, gauge |-> g, confidence |-> conf]

\* The outcome of (a part of) a call: what it raised ("none" when it
\* returned), the value returned or the exception raised, the instruments
\* after it, and how many times it invoked model.predict.
Outcome(raised, value, inst, predicts) ==
    [raised |-> raised, value |-> value, inst |-> inst, predict_calls |-> predicts]

\* The guard of predict_from_prometheus (lines 234-235).
model_unavailable(m, names) == m = None \/ names = <<>>

\* --------------------------------------------------- predict_from_prometheus
\* Lines 240-269, from model.predict to the return; with line 238 it is
\* everything after `await prom_client.get_workload_metrics()`, and there is
\* no await in it, so it runs as one step.  feature_vector is line 238's,
\* behaviour what the estimator does with a well-shaped vector, proba what
\* predict_proba did, inst the instruments before, t the clock.
predict_after_metrics_publish_first(m, feature_vector, metrics, behaviour, proba, inst, t) ==
    LET predicted == model_predict(m, feature_vector, behaviour)
        early == Instruments(inst.counter + 1, inst.gauge, inst.confidence)
    IN  IF predicted.kind = "ValueError"
        THEN Outcome("HTTPException", HTTPException(500), early, 1)
        ELSE IF predicted.kind # "value"
        THEN Outcome("Exception", Unhandled(predicted.kind), early, 1)
        ELSE LET confidence == confidence_of(m, proba)
                 pods == pods_of(predicted.raw)
             IN  Outcome("none", PredictionResponse(pods, confidence, t, metrics),
                         Instruments(inst.counter + 1, pods, confidence), 1)

predict_after_metrics_double_count(m, feature_vector, metrics, behaviour, proba, inst, t) ==
    LET predicted == model_predict(m, feature_vector, behaviour)
    IN  IF predicted.kind = "ValueError"
        THEN Outcome("HTTPException", HTTPException(500), inst, 1)
        ELSE IF predicted.kind # "value"
        THEN Outcome("Exception", Unhandled(predicted.kind), inst, 1)
        ELSE LET confidence == confidence_of(m, proba)
                 pods == pods_of(predicted.raw)
             IN  Outcome("none", PredictionResponse(pods, confidence, t, metrics),
                         Instruments(inst.counter + 2, pods, confidence), 1)

predict_after_metrics_cached(m, feature_vector, metrics, behaviour, proba, inst, t) ==
    LET predicted == model_predict(m, feature_vector, behaviour)
    IN  IF inst.counter > 0
        THEN Outcome("none", PredictionResponse(inst.gauge, inst.confidence, t, metrics), inst, 0)
        ELSE IF predicted.kind = "ValueError"
        THEN Outcome("HTTPException", HTTPException(500), inst, 1)
        ELSE IF predicted.kind # "value"
        THEN Outcome("Exception", Unhandled(predicted.kind), inst, 1)
        ELSE LET confidence == confidence_of(m, proba)
                 pods == pods_of(predicted.raw)
             IN  Outcome("none", PredictionResponse(pods, confidence, t, metrics),
                         Instruments(inst.counter + 1, pods, confidence), 1)

predict_after_metrics_mismatch_as_503(m, feature_vector, metrics, behaviour, proba, inst, t) ==
    LET predicted == model_predict(m, feature_vector, behaviour)
    IN  IF predicted.kind = "ValueError"
        THEN Outcome("HTTPException", HTTPException(503), inst, 1)
        ELSE IF predicted.kind # "value"
        THEN Outcome("Exception", Unhandled(predicted.kind), inst, 1)
        ELSE LET confidence == confidence_of(m, proba)
                 pods == pods_of(predicted.raw)
             IN  Outcome("none", PredictionResponse(pods, confidence, t, metrics),
                         Instruments(inst.counter + 1, pods, confidence), 1)

predict_after_metrics(m, feature_vector, metrics, behaviour, proba, inst, t) ==
    LET predicted == model_predict(m, feature_vector, behaviour)
    IN  IF predicted.kind = "ValueError"
        THEN Outcome("HTTPException", HTTPException(500), inst, 1)
        ELSE IF predicted.kind # "value"
        THEN Outcome("Exception", Unhandled(predicted.kind), inst, 1)
        ELSE LET confidence == confidence_of(m, proba)
                 pods == pods_of(predicted.raw)
             IN  Outcome("none", PredictionResponse(pods, confidence, t, metrics),
                         Instruments(inst.counter + 1, pods, confidence), 1)

\* ---------------------------------------------------------------- keda_metric
\* Lines 273-279 around the call: r is the outcome of predict_from_prometheus.
\* Only HTTPException is caught.
keda_metric_cached_fallback(r, t) ==
    IF r.raised = "none"
    THEN Outcome("none", KEDAMetricResponse(r.value.predicted_pod_count, r.value.timestamp), r.inst, r.predict_calls)
    ELSE IF r.raised = "HTTPException"
    THEN Outcome("none", KEDAMetricResponse(IF r.inst.counter > 0 THEN r.inst.gauge ELSE FallbackReplicas, t), r.inst, r.predict_calls)
    ELSE r

keda_metric(r, t) ==
    IF r.raised = "none"
    THEN Outcome("none", KEDAMetricResponse(r.value.predicted_pod_count, r.value.timestamp), r.inst, r.predict_calls)
    ELSE IF r.raised = "HTTPException"
    THEN Outcome("none", KEDAMetricResponse(FallbackReplicas, t), r.inst, r.predict_calls)
    ELSE r

\* --------------------------------------------------------------- health_check
\* Lines 214-227.  a is the store's answer to the probe query "up".  The
\* awaited query_metric has caught every Exception itself and returned a
\* number, so the await never raises and line 217 always runs.
health_check(m, names, a, t) ==
    LET probe == Returned(query_metric(a))
        prom_ok == probe.kind = "value"
    IN  [kind |-> "Health",
         status |-> IF m # None /\ prom_ok THEN "healthy" ELSE "unhealthy",
         model_loaded |-> m # None,
         prometheus_connected |-> prom_ok,
         expected_features |-> Len(names),
         timestamp |-> t]

\* --------------------------------------------------------- prometheus_metrics
\* generate_latest(registry).decode(): the current value of each of the three
\* instruments, read in one go (the endpoint has no await).
generate_latest(i) ==
    [kind |-> "Exposition", prediction_requests_total |-> i.counter,
     predicted_pod_count |-> i.gauge, model_confidence |-> i.confidence]

\* -------------------------------------------------------------------- _runner
\* Lines 199-204: whatever the tick raised (any Exception) is logged, and the
\* loop goes on to asyncio.sleep(30).
runner_after_tick_uncaught(raised) == IF raised = "none" THEN "sleep" ELSE "dead"

runner_after_tick(raised) == "sleep"

\* The delay of the sleep the runner starts when it goes to `to`.
sleep_delay(to) == IF to = "sleep" THEN SleepSeconds ELSE 0

\* The pipeline runs that have returned a PredictionResponse so far: how
\* many, and the replica count and confidence of the last one to return.
Completed(cycles, pods, confidence) == [cycles |-> cycles, pods |-> pods, confidence |-> confidence]

\* ... after one more run of predict_from_prometheus ended as r.
completed_after(done, r) ==
    IF r.raised = "none"
    THEN Completed(done.cycles + 1, r.value.predicted_pod_count, r.value.confidence)
    ELSE done

\* ============================================================ the service
VARIABLES
    phase,                    \* "boot" before the startup handlers ran, then "running"
    model,                    \* the global model
    expected_feature_names,   \* the global expected_feature_names
    startup_error,            \* what load_model_and_features logged as its failure at startup
    prediction_counter,       \* Counter prediction_requests_total
    prediction_gauge,         \* Gauge predicted_pod_count
    model_confidence_gauge,   \* Gauge model_confidence
    published,                \* the pipeline runs that have returned a result, and the last one's values
    now,                      \* the clock datetime.utcnow() reads
    pc,                       \* where the background runner and the client's request are
    endpoint,                 \* the endpoint of the client's request in flight
    response,                 \* the client's last completed request
    ticked,                   \* the runner worked on a tick since `response`
    tick,                     \* how the runner's last tick ended
    timer,                    \* the delay of the runner's pending asyncio.sleep, 0 when none
    acquisitions,             \* calls of get_workload_metrics so far
    stage,                    \* "service", or the stage of a function under test
    arg,                      \* the input of the function under test
    ret                       \* its result

vars == <<phase, model, expected_feature_names, startup_error, prediction_counter, prediction_gauge, model_confidence_gauge, published, now, pc, endpoint, response, ticked, tick, timer, acquisitions, stage, arg, ret>>

instruments == <<prediction_counter, prediction_gauge, model_confidence_gauge>>

harness == <<stage, arg, ret>>

inst == Instruments(prediction_counter, prediction_gauge, model_confidence_gauge)

\* ------------------------------------------------------------ environment
\* What the store answers to the six queries of one acquisition cycle.
ScenarioUp == [n \in MetricNameSet |-> IF n = "memory_usage" THEN AnswerValue(512) ELSE AnswerValue(40)]

ScenarioDown == [n \in MetricNameSet |-> AnswerUnreachable]

ScenarioPartial == [n \in MetricNameSet |-> IF n = "cpu_usage" THEN AnswerTimeout ELSE AnswerValue(40)]

StoreScenarios == {ScenarioUp, ScenarioDown, ScenarioPartial}

\* get_workload_metrics on each of them.
AcquiredMetrics == [answers \in StoreScenarios |-> get_workload_metrics(answers)]

\* The artifacts found at startup.
ModelFiles == {ModelFileMissing, ModelFile(Estimator(3, TRUE, FALSE)), ModelFile(Estimator(2, FALSE, TRUE))}

MetadataFiles == {Metadata("missing", <<>>, <<>>), Metadata("unreadable", <<>>, <<>>), Metadata("json", <<"cpu_usage", "unknown_feat", "memory_usage">>, <<"f_0">>), Metadata("json", <<>>, <<"cpu_usage", "cpu_usage">>), Metadata("json", <<>>, <<>>)}

\* ------------------------------------------------------------------ records
\* A completed request: its endpoint, what predict_from_prometheus raised
\* inside it (and the HTTP status of that), what the endpoint raised to its
\* caller, the value or exception the caller got, how often the request
\* called model.predict and get_workload_metrics, and whether it came right
\* after a successful /predict-from-prometheus request with no tick between.
Call(e, r, final, acq, follows) ==
    [endpoint |-> e, upstream |-> r.raised,
     upstream_status |-> IF r.raised = "HTTPException" THEN r.value.status_code ELSE 0,
     raised |-> final.raised, delivered |-> final.value,
     predict_calls |-> r.predict_calls, acquisitions |-> acq, follows_prediction |-> follows]

NoCall == [endpoint |-> "none", upstream |-> "none", upstream_status |-> 0, raised |-> "none", delivered |-> Nothing, predict_calls |-> 0, acquisitions |-> 0, follows_prediction |-> FALSE]

\* The last request was a successful /predict-from-prometheus and the runner
\* has not worked on a tick since.
fresh_prediction == response.endpoint = "predict" /\ response.raised = "none" /\ ~ticked

Tick(outcome, raised, pods) == [outcome |-> outcome, raised |-> raised, pods |-> pods]

\* ---------------------------------------------------------------------- Init
\* The module's globals after import: no model, no feature names, the
\* instruments at zero, no task running.
ServiceInit ==
    /\ phase = "boot"
    /\ model = None
    /\ expected_feature_names = <<>>
    /\ startup_error = "none"
    /\ prediction_counter = 0
    /\ prediction_gauge = 0
    /\ model_confidence_gauge = 0
    /\ published = Completed(0, 0, 0)
    /\ now = 0
    /\ pc = [runner |-> "boot", client |-> "idle"]
    /\ endpoint = "none"
    /\ response = NoCall
    /\ ticked = FALSE
    /\ tick = Tick("none", "none", 0)
    /\ timer = 0
    /\ acquisitions = 0

Init ==
    /\ ServiceInit
    /\ stage = "service"
    /\ arg = <<>>
    /\ ret = <<>>

\* ------------------------------------------------------------------- actions
\* Every way the rest of predict_from_prometheus can go once the awaited
\* metrics arrive: over the store's answers, the estimator's behaviour and
\* predict_proba's.  (The vector is bound as a set's element so that it is
\* built once for each snapshot.)
predict_outcomes ==
    UNION {{predict_after_metrics(model, feature_vector, AcquiredMetrics[answers], behaviour, proba, inst, now) :
                feature_vector \in {build_feature_vector(AcquiredMetrics[answers], expected_feature_names)},
                behaviour \in EstimatorBehaviours, proba \in ProbaOutcomes} :
           answers \in StoreScenarios}

\* The two startup handlers: _startup loads the model, then
\* _background_prediction_loop creates the runner task.
Startup ==
    /\ phase = "boot"
    /\ \E file \in ModelFiles, meta \in MetadataFiles :
        LET l == load_model_and_features(file, meta, expected_feature_names)
        IN  /\ model' = l.model
            /\ expected_feature_names' = l.expected_feature_names
            /\ startup_error' = l.error
    /\ phase' = "running"
    /\ pc' = [pc EXCEPT !.runner = "loop"]
    /\ UNCHANGED <<instruments, published, now, endpoint, response, ticked, tick, timer, acquisitions, harness>>

AdvanceClock ==
    /\ phase = "running"
    /\ now < MaxTime
    /\ now' = now + 1
    /\ UNCHANGED <<phase, model, expected_feature_names, startup_error, instruments, published, pc, endpoint, response, ticked, tick, timer, acquisitions, harness>>

\* Top of `while True`: skip the tick when model is None, else call
\* predict_from_prometheus, which raises 503 at its guard or goes on to await
\* the metrics.
RunnerTick ==
    /\ pc.runner = "loop"
    /\ model # None => acquisitions < MaxRuns
    /\ IF model = None
       THEN /\ tick' = Tick("skipped", "none", 0)
            /\ pc' = [pc EXCEPT !.runner = runner_after_tick("none")]
            /\ timer' = sleep_delay(runner_after_tick("none"))
            /\ UNCHANGED <<acquisitions, ticked>>
       ELSE IF model_unavailable(model, expected_feature_names)
       THEN /\ tick' = Tick("error", "HTTPException", 0)
            /\ pc' = [pc EXCEPT !.runner = runner_after_tick("HTTPException")]
            /\ timer' = sleep_delay(runner_after_tick("HTTPException"))
            /\ ticked' = TRUE
            /\ UNCHANGED acquisitions
       ELSE /\ pc' = [pc EXCEPT !.runner = "await_metrics"]
            /\ acquisitions' = acquisitions + 1
            /\ ticked' = TRUE
            /\ UNCHANGED <<tick, timer>>
    /\ UNCHANGED <<phase, model, expected_feature_names, startup_error, instruments, published, now, endpoint, response, harness>>

\* The metrics arrive and the rest of predict_from_prometheus runs; then the
\* runner's except clause and the sleep.
RunnerResume ==
    /\ pc.runner = "await_metrics"
    /\ UNCHANGED <<phase, model, expected_feature_names, startup_error, now, endpoint, response, acquisitions, harness>>
    /\ ticked' = TRUE
    /\ \E r \in predict_outcomes :
            /\ prediction_counter' = r.inst.counter
            /\ prediction_gauge' = r.inst.gauge
            /\ model_confidence_gauge' = r.inst.confidence
            /\ published' = completed_after(published, r)
            /\ tick' = IF r.raised = "none"
                       THEN Tick("ok", "none", r.value.predicted_pod_count)
                       ELSE Tick("error", r.raised, 0)
            /\ pc' = [pc EXCEPT !.runner = runner_after_tick(r.raised)]
            /\ timer' = sleep_delay(runner_after_tick(r.raised))

\* asyncio.sleep(30) returns.
RunnerWake ==
    /\ pc.runner = "sleep"
    /\ pc' = [pc EXCEPT !.runner = "loop"]
    /\ timer' = 0
    /\ UNCHANGED <<phase, model, expected_feature_names, startup_error, instruments, published, now, endpoint, response, ticked, tick, acquisitions, harness>>

\* The endpoint function around predict_from_prometheus's outcome r.
endpoint_result(e, r, t) == IF e = "keda" THEN keda_metric(r, t) ELSE r

\* A request to /predict-from-prometheus or /keda-metric arrives; both call
\* predict_from_prometheus at once, which raises 503 at its guard or goes on
\* to await the metrics.
ClientRequest ==
    /\ phase = "running"
    /\ pc.client = "idle"
    /\ \E e \in {"predict", "keda"} :
        IF model_unavailable(model, expected_feature_names)
        THEN LET r == Outcome("HTTPException", HTTPException(503), inst, 0)
             IN  /\ response' = Call(e, r, endpoint_result(e, r, now), 0, fresh_prediction)
                 /\ ticked' = FALSE
                 /\ UNCHANGED <<pc, endpoint, acquisitions>>
        ELSE /\ acquisitions < MaxRuns
             /\ pc' = [pc EXCEPT !.client = "await_metrics"]
             /\ endpoint' = e
             /\ acquisitions' = acquisitions + 1
             /\ UNCHANGED <<response, ticked>>
    /\ UNCHANGED <<phase, model, expected_feature_names, startup_error, instruments, published, now, tick, timer, harness>>

\* The metrics arrive and the rest of the request runs to its response.
ClientResume ==
    /\ pc.client = "await_metrics"
    /\ \E r \in predict_outcomes :
            /\ prediction_counter' = r.inst.counter
            /\ prediction_gauge' = r.inst.gauge
            /\ model_confidence_gauge' = r.inst.confidence
            /\ published' = completed_after(published, r)
            /\ response' = Call(endpoint, r, endpoint_result(endpoint, r, now), 1, fresh_prediction)
    /\ ticked' = FALSE
    /\ pc' = [pc EXCEPT !.client = "idle"]
    /\ endpoint' = "none"
    /\ UNCHANGED <<phase, model, expected_feature_names, startup_error, now, tick, timer, acquisitions, harness>>

\* A request to /health arrives and awaits its probe of the store.
HealthRequest ==
    /\ phase = "running"
    /\ pc.client = "idle"
    /\ pc' = [pc EXCEPT !.client = "await_probe"]
    /\ endpoint' = "health"
    /\ UNCHANGED <<phase, model, expected_feature_names, startup_error, instruments, published, now, response, ticked, tick, timer, acquisitions, harness>>

\* The probe is back, whatever the store did with it, and /health answers.
HealthResume ==
    /\ pc.client = "await_probe"
    /\ \E a \in StoreAnswers :
        LET r == Outcome("none", health_check(model, expected_feature_names, a, now), inst, 0)
        IN  response' = Call(endpoint, r, r, 0, FALSE)
    /\ ticked' = FALSE
    /\ pc' = [pc EXCEPT !.client = "idle"]
    /\ endpoint' = "none"
    /\ UNCHANGED <<phase, model, expected_feature_names, startup_error, instruments, published, now, tick, timer, acquisitions, harness>>

\* A scrape of /prometheus-metrics: it has no await, so it runs in one step,
\* at any point between the steps of the runner and of a request in flight.
Scrape ==
    /\ phase = "running"
    /\ LET r == Outcome("none", generate_latest(inst), inst, 0)
       IN  response' = Call("scrape", r, r, 0, FALSE)
    /\ ticked' = FALSE
    /\ UNCHANGED <<phase, model, expected_feature_names, startup_error, instruments, published, now, pc, endpoint, tick, timer, acquisitions, harness>>

Next == Startup \/ AdvanceClock \/ RunnerTick \/ RunnerResume \/ RunnerWake \/ ClientRequest \/ ClientResume \/ HealthRequest \/ HealthResume \/ Scrape

Spec == Init /\ [][Next]_vars

\* The event loop runs every ready task and every timer fires: the runner's
\* steps are taken when they stay enabled.
LiveSpec == Spec /\ WF_vars(RunnerTick) /\ WF_vars(RunnerResume) /\ WF_vars(RunnerWake)

\* ================================================= functions under test
service == <<phase, model, expected_feature_names, startup_error, prediction_counter, prediction_gauge, model_confidence_gauge, published, now, pc, endpoint, response, ticked, tick, timer, acquisitions>>

\* ---- get_workload_metrics on every combination of answers to the six queries
AcqInit ==
    /\ ServiceInit
    /\ stage = "input"
    /\ arg \in [MetricNameSet -> StoreAnswers]
    /\ ret = <<>>

AcqCall ==
    /\ stage = "input"
    /\ ret' = get_workload_metrics(arg)
    /\ stage' = "done"
    /\ UNCHANGED <<service, arg>>

AcqNext == AcqCall

SpecAcq == AcqInit /\ [][AcqNext]_vars

\* ---- one acquisition cycle against a store whose answer to a repeated
\* query may differ from its answer to the first
AnswerStreams == [1..StreamLen -> {AnswerValue(40), AnswerTimeout}]

CycleInit ==
    /\ ServiceInit
    /\ stage = "input"
    /\ arg \in [MetricNameSet -> AnswerStreams]
    /\ ret = <<>>

CycleCall ==
    /\ stage = "input"
    /\ ret' = acquisition_cycle(arg)
    /\ stage' = "done"
    /\ UNCHANGED <<service, arg>>

CycleNext == CycleCall

SpecCycle == CycleInit /\ [][CycleNext]_vars

\* ---- build_feature_vector on every schema up to MaxSchemaLen names
FeatureUniverse == MetricNameSet \cup DerivedNames \cup {"unknown_feat", "f_0"}

Schemas == UNION {[1..k -> FeatureUniverse] : k \in 1..MaxSchemaLen}

Snapshots ==
    {[n \in MetricNameSet |->
        CASE n = "cpu_usage" -> c
          [] n = "memory_usage" -> m
          [] n = "request_rate" -> q
          [] n = "queue_length" -> 3
          [] n = "response_time" -> 2
          [] OTHER -> 9] : c \in {0, 40}, m \in {0, 512}, q \in {0, 7}}

VecInit ==
    /\ ServiceInit
    /\ stage = "input"
    /\ arg \in [metrics : Snapshots, names : Schemas]
    /\ ret = <<>>

VecCall ==
    /\ stage = "input"
    /\ ret' = build_feature_vector(arg.metrics, arg.names)
    /\ stage' = "done"
    /\ UNCHANGED <<service, arg>>

VecNext == VecCall

SpecVec == VecInit /\ [][VecNext]_vars

\* ---- the pipeline of predict_from_prometheus after its guard, on every
\* estimator behaviour
\* All six queries fail, each in its own way.
ScenarioMixedFailures ==
    [n \in MetricNameSet |->
        CASE n = "cpu_usage" -> AnswerUnreachable
          [] n = "memory_usage" -> AnswerTimeout
          [] n = "request_rate" -> AnswerHttpError
          [] n = "queue_length" -> AnswerMalformed
          [] n = "response_time" -> AnswerStatusError
          [] OTHER -> AnswerBadSample]

InferScenarios == StoreScenarios \cup {ScenarioMixedFailures}

InferInit ==
    /\ ServiceInit
    /\ stage = "input"
    /\ arg \in [m : {f.estimator : f \in ModelFiles \ {ModelFileMissing}},
                names : {<<"cpu_usage", "unknown_feat", "memory_usage">>, <<"cpu_usage", "cpu_usage">>, synthetic_feature_names(3)},
                answers : InferScenarios,
                behaviour : EstimatorBehaviours,
                proba : ProbaOutcomes,
                inst : {Instruments(0, 0, 0), Instruments(1, 2, DefaultConfidence)},
                t : 0..MaxTime]
    /\ ret = <<>>

InferCall ==
    /\ stage = "input"
    /\ LET metrics == get_workload_metrics(arg.answers)
       IN  ret' = predict_after_metrics(arg.m, build_feature_vector(metrics, arg.names), metrics, arg.behaviour, arg.proba, arg.inst, arg.t)
    /\ stage' = "done"
    /\ UNCHANGED <<service, arg>>

InferNext == InferCall

SpecInfer == InferInit /\ [][InferNext]_vars

\* ---- load_model_and_features on every pair of artifacts, at startup and
\* as a second call after an earlier one had found a schema
LoadFiles == {ModelFileMissing} \cup {ModelFile(Estimator(n, e, p)) : n \in {0, 2, 3}, e \in BOOLEAN, p \in BOOLEAN}

LoadInit ==
    /\ ServiceInit
    /\ stage = "input"
    /\ arg \in [file : LoadFiles, meta : MetadataFiles, old_names : {<<>>, <<"cpu_usage", "memory_usage">>}]
    /\ ret = <<>>

LoadCall ==
    /\ stage = "input"
    /\ ret' = load_model_and_features(arg.file, arg.meta, arg.old_names)
    /\ stage' = "done"
    /\ UNCHANGED <<service, arg>>

LoadNext == LoadCall

SpecLoad == LoadInit /\ [][LoadNext]_vars

\* ---- health_check on every startup outcome and every answer to its probe
HealthInit ==
    /\ ServiceInit
    /\ stage = "input"
    /\ arg \in [file : ModelFiles, meta : MetadataFiles, answer : StoreAnswers, t : 0..MaxTime]
    /\ ret = <<>>

HealthCall ==
    /\ stage = "input"
    /\ LET l == load_model_and_features(arg.file, arg.meta, <<>>)
       IN  ret' = health_check(l.model, l.expected_feature_names, arg.answer, arg.t)
    /\ stage' = "done"
    /\ UNCHANGED <<service, arg>>

HealthNext == HealthCall

SpecHealth == HealthInit /\ [][HealthNext]_vars

\* ============================================ the batch collector's query
\* PrometheusCollector.query_prometheus of AI/Data_collector.py, one step for
\* each pass of its for loop.  arg holds config.max_retries, the store's
\* answers to the successive GETs, and whether the installed requests raises
\* its own JSONDecodeError, a RequestException, from response.json() (it does
\* from 2.27 on; before, a plain ValueError).  ret holds the loop variable,
\* the numbers of GETs and of sleeps so far, and how the call ended.

\* A 200 whose body is JSON but not an object (a list, null): data.get fails.
AnswerNotObject == Answer("ok", 200, "json_not_object", "none", <<>>)

RetryAnswers == {AnswerValue(40), AnswerUnreachable, AnswerHttpError, AnswerStatusError, AnswerMalformed, AnswerNotObject}

\* Lines 214-238, one pass of the try: "success" returns the data, "failed"
\* is a logged failure that falls through to line 240, "raised" an exception
\* the except clause does not catch.
query_prometheus_attempt(a, json_error_caught) ==
    IF a.transport # "ok" THEN "failed"
    ELSE IF a.http_status # 200 THEN "failed"
    ELSE IF a.body = "garbage" THEN (IF json_error_caught THEN "failed" ELSE "raised")
    ELSE IF a.body # "json" THEN "raised"
    ELSE IF a.status = "success" THEN "success"
    ELSE "failed"

RetryState(attempt, gets, sleeps, returned) ==
    [attempt |-> attempt, gets |-> gets, sleeps |-> sleeps, returned |-> returned]

RetryInit ==
    /\ ServiceInit
    /\ stage = "loop"
    /\ arg \in [max_retries : 0..MaxRetries, answers : [1..MaxRetries -> RetryAnswers], json_error_caught : BOOLEAN]
    /\ ret = RetryState(0, 0, 0, "pending")

\* One pass: the GET, then return, raise, sleep before the next pass, or
\* (after the last pass) straight back to the loop head.
RetryAttempt ==
    /\ stage = "loop"
    /\ ret.attempt < arg.max_retries
    /\ LET o == query_prometheus_attempt(arg.answers[ret.attempt + 1], arg.json_error_caught)
       IN  IF o = "success"
           THEN /\ stage' = "done"
                /\ ret' = RetryState(ret.attempt, ret.gets + 1, ret.sleeps, "data")
           ELSE IF o = "raised"
           THEN /\ stage' = "done"
                /\ ret' = RetryState(ret.attempt, ret.gets + 1, ret.sleeps, "raised")
           ELSE IF ret.attempt < arg.max_retries - 1
           THEN /\ stage' = "sleep"
                /\ ret' = RetryState(ret.attempt, ret.gets + 1, ret.sleeps + 1, "pending")
           ELSE /\ stage' = "loop"
                /\ ret' = RetryState(ret.attempt + 1, ret.gets + 1, ret.sleeps, "pending")
    /\ UNCHANGED <<service, arg>>

\* time.sleep(retry_delay) returns and the loop goes to its next pass.
RetryWake ==
    /\ stage = "sleep"
    /\ stage' = "loop"
    /\ ret' = RetryState(ret.attempt + 1, ret.gets, ret.sleeps, "pending")
    /\ UNCHANGED <<service, arg>>

\* The loop is exhausted: lines 244-245.
RetryGiveUp ==
    /\ stage = "loop"
    /\ ret.attempt >= arg.max_retries
    /\ stage' = "done"
    /\ ret' = RetryState(ret.attempt, ret.gets, ret.sleeps, "None")
    /\ UNCHANGED <<service, arg>>

RetryNext == RetryAttempt \/ RetryWake \/ RetryGiveUp

SpecRetry == RetryInit /\ [][RetryNext]_vars

\* ==================================================================== claims

\* C1: every /keda-metric request in which a step of predict_from_prometheus
\* failed (model not loaded, no schema, the predictor raising anything)
\* returns to its caller, without raising, a signal whose metric_value is 1.
C1_KedaNeverRaises ==
    (response.endpoint = "keda" /\ response.upstream # "none") =>
        /\ response.raised = "none"
        /\ response.delivered.kind = "KEDAMetricResponse"
        /\ response.delivered.metric_value = 1

\* C2: every PredictionResponse predict_from_prometheus produces has
\* predicted_pod_count >= 1, whatever number the predictor returned, and the
\* value it sets the predicted_pod_count gauge to is >= 1.
C2_PodsAtLeastOne ==
    (stage = "done" /\ ret.raised = "none") =>
        /\ ret.value.kind = "PredictionResponse"
        /\ ret.value.predicted_pod_count >= 1
        /\ ret.inst.gauge >= 1
        /\ ret.inst.gauge = ret.value.predicted_pod_count

\* C2's case: the predictor returned a negative number and a zero-rounding one.
C2_Witness ==
    /\ stage = "done"
    /\ arg.behaviour = Returned(0 - MaxRawNum)
    /\ arg.inst.gauge = 2
    /\ ret.raised = "none"
    /\ ret.value.predicted_pod_count = 1
    /\ ret.inst.gauge = 1

\* C3: for every snapshot and every schema (duplicates, unknown names and
\* synthetic placeholders included) build_feature_vector returns a vector as
\* long as the schema.
C3_VectorLength ==
    stage = "done" => Len(ret) = Len(arg.names)

\* C3's case: a schema with a duplicate, an unknown and a synthetic name.
C3_Witness ==
    /\ stage = "done"
    /\ Len(arg.names) = MaxSchemaLen
    /\ \E i, j \in 1..Len(arg.names) : i # j /\ arg.names[i] = arg.names[j]
    /\ \E i \in 1..Len(arg.names) : arg.names[i] \in {"unknown_feat", "f_0"}
    /\ Len(ret) = MaxSchemaLen

\* C4: entry i of the vector is the raw metric when schema name i is one of
\* the six acquired fields, cpu_usage / (memory_usage + 1e-6) for
\* cpu_memory_ratio, request_rate for network_total, and 0 for any other
\* name; schema [cpu_usage, unknown_feat, memory_usage] with cpu_usage 40 and
\* memory_usage 512 gives [40, 0, 512].
C4_VectorEntries ==
    stage = "done" =>
        /\ DOMAIN ret = 1..Len(arg.names)
        /\ \A i \in 1..Len(arg.names) :
            LET name == arg.names[i]
            IN  ret[i] =
                    IF name \in MetricNameSet THEN [num |-> arg.metrics[name], den |-> 1]
                    ELSE IF name = "cpu_memory_ratio"
                    THEN [num |-> arg.metrics["cpu_usage"] * 1000000, den |-> arg.metrics["memory_usage"] * 1000000 + 1]
                    ELSE IF name = "network_total" THEN [num |-> arg.metrics["request_rate"], den |-> 1]
                    ELSE [num |-> 0, den |-> 1]
        /\ (/\ arg.names = <<"cpu_usage", "unknown_feat", "memory_usage">>
            /\ arg.metrics["cpu_usage"] = 40
            /\ arg.metrics["memory_usage"] = 512)
           => ret = <<[num |-> 40, den |-> 1], [num |-> 0, den |-> 1], [num |-> 512, den |-> 1]>>

\* C4's case: the schema and snapshot of the example, aligned.
C4_Witness ==
    /\ stage = "done"
    /\ arg.names = <<"cpu_usage", "unknown_feat", "memory_usage">>
    /\ arg.metrics["cpu_usage"] = 40
    /\ arg.metrics["memory_usage"] = 512
    /\ ret[1].num = 40
    /\ ret[2].num = 0
    /\ ret[3].num = 512

\* C5: whatever subset of the six queries fails, the snapshot has all six
\* fields, a failed query's field is 0 and a successful query's field is the
\* value the store returned for that query.
C5_SnapshotComplete ==
    stage = "done" =>
        /\ DOMAIN ret = MetricNameSet
        /\ \A n \in MetricNameSet :
            ret[n] = IF arg[n] \in FailedAnswers THEN 0 ELSE arg[n].result[1].value

\* C5's case: one query timed out, the other five answered different values.
C5_Witness ==
    /\ stage = "done"
    /\ arg["cpu_usage"] = AnswerTimeout
    /\ arg["memory_usage"] = AnswerValue(512)
    /\ \A n \in MetricNameSet \ {"cpu_usage", "memory_usage"} : arg[n] = AnswerValue(40)
    /\ ret["cpu_usage"] = 0
    /\ ret["memory_usage"] = 512
    /\ ret["request_rate"] = 40

C7_FailedTickPublishesNothing ==
    [][(pc.runner # "sleep" /\ pc'.runner = "sleep" /\ tick'.outcome # "ok") =>
        /\ prediction_counter' = prediction_counter
        /\ prediction_gauge' = prediction_gauge
        /\ model_confidence_gauge' = model_confidence_gauge]_vars

\* C7's case: a tick published 2 replicas, no request has completed, and
\* the next tick failed.
C7_Witness ==
    /\ tick.outcome = "error"
    /\ pc.runner = "sleep"
    /\ response = NoCall
    /\ pc.client = "idle"
    /\ prediction_counter = 1
    /\ prediction_gauge = 2

\* C8: the runner never stops: a tick in flight and a sleep both lead back
\* to the top of the loop, whatever the tick raised, every sleep is for the
\* fixed interval, and the runner is always at one of its four places.
C8_RunnerKeepsTicking ==
    /\ [](pc.runner \in {"boot", "loop", "await_metrics", "sleep"})
    /\ [](pc.runner = "sleep" => timer = 30)
    /\ [](pc.runner \in {"await_metrics", "sleep"} => <>(pc.runner = "loop"))

\* C8's case: the runner is back at the top of the loop after a failed tick
\* and after a skipped one.
C8_Witness ==
    /\ pc.runner = "loop"
    /\ tick.outcome = "error"
    /\ tick.raised = "Exception"

\* C9: the counter never decreases; it goes up by exactly one, and the two
\* gauges are set to that prediction's values, in every step in which a call
\* of predict_from_prometheus (from a tick or a request) completes
\* successfully, and the instruments change in no other step.
C9_CounterCountsPredictions ==
    [][LET runner_done == pc.runner = "await_metrics" /\ pc'.runner # "await_metrics" /\ tick'.outcome = "ok"
           client_done == pc.client = "await_metrics" /\ pc'.client = "idle" /\ response'.upstream = "none"
       IN  /\ prediction_counter' >= prediction_counter
           /\ (runner_done =>
                /\ prediction_counter' = prediction_counter + 1
                /\ prediction_gauge' = tick'.pods)
           /\ (client_done =>
                /\ prediction_counter' = prediction_counter + 1
                /\ (response'.endpoint = "predict" =>
                        /\ prediction_gauge' = response'.delivered.predicted_pod_count
                        /\ model_confidence_gauge' = response'.delivered.confidence)
                /\ (response'.endpoint = "keda" =>
                        prediction_gauge' = response'.delivered.metric_value))
           /\ (~(runner_done \/ client_done) =>
                /\ prediction_counter' = prediction_counter
                /\ prediction_gauge' = prediction_gauge
                /\ model_confidence_gauge' = model_confidence_gauge)]_vars

\* C9's case: one successful tick and one successful request, counter at 2.
C9_Witness ==
    /\ prediction_counter = 2
    /\ tick.outcome = "ok"
    /\ response.endpoint = "predict"
    /\ response.upstream = "none"
    /\ acquisitions = 2

\* C10 as stated: a /keda-metric request whose prediction is rejected by the
\* predictor (HTTP 500 inside) returns the last published replica count when
\* a prediction has been published, and 1 only when none has.
C10_KedaReturnsCachedCount ==
    [][(pc.client = "await_metrics" /\ endpoint = "keda" /\ pc'.client = "idle" /\ response'.upstream_status = 500) =>
        /\ response'.raised = "none"
        /\ response'.delivered.metric_value = IF prediction_counter >= 1 THEN prediction_gauge ELSE 1]_vars

\* C10 amended: a /keda-metric request whose prediction is rejected by the
\* predictor returns metric_value 1, whether or not a prediction has been
\* published before.
C10_KedaMismatchReturnsOne ==
    (response.endpoint = "keda" /\ response.upstream_status = 500) =>
        /\ response.raised = "none"
        /\ response.delivered.kind = "KEDAMetricResponse"
        /\ response.delivered.metric_value = 1

\* C10's case: a prediction of 2 replicas was published by the request just
\* before, then the predictor rejected the vector of a /keda-metric request.
C10_Witness ==
    /\ response.endpoint = "keda"
    /\ response.upstream_status = 500
    /\ response.follows_prediction
    /\ response.delivered.metric_value = 1
    /\ prediction_counter = 1
    /\ prediction_gauge = 2
    /\ tick.outcome = "none"
    /\ pc.runner = "loop"

\* C11 as stated: every /predict-from-prometheus request returns a well-formed
\* PredictionResponse and never an error to its caller, whether the model is
\* loaded or not and whatever the predictor does.
C11_PredictNeverErrors ==
    response.endpoint = "predict" =>
        /\ response.raised = "none"
        /\ response.delivered.kind = "PredictionResponse"

\* C11 amended: a /predict-from-prometheus request reports an error to its
\* caller when the pipeline cannot produce a result: HTTP 503, without
\* acquiring or predicting, exactly when the model is not loaded or the
\* schema is empty; otherwise, after one acquisition and one call of the
\* predictor, either a well-formed PredictionResponse with at least one
\* replica, or HTTP 500, or the predictor's own exception.
C11_PredictReportsErrors ==
    response.endpoint = "predict" =>
        IF model_unavailable(model, expected_feature_names)
        THEN /\ response.raised = "HTTPException"
             /\ response.delivered = [kind |-> "HTTPException", status_code |-> 503]
             /\ response.predict_calls = 0
             /\ response.acquisitions = 0
        ELSE /\ response.predict_calls = 1
             /\ response.acquisitions = 1
             /\ \/ /\ response.raised = "none"
                   /\ response.delivered.kind = "PredictionResponse"
                   /\ response.delivered.predicted_pod_count >= 1
                   /\ DOMAIN response.delivered.metrics_used = MetricNameSet
                \/ /\ response.raised = "HTTPException"
                   /\ response.delivered = [kind |-> "HTTPException", status_code |-> 500]
                \/ /\ response.raised = "Exception"
                   /\ response.delivered.kind = "Exception"

\* C11's case: the model file was missing at startup and a request to
\* /predict-from-prometheus got HTTP 503.
C11_Witness ==
    /\ response.endpoint = "predict"
    /\ model = None
    /\ startup_error = "model_file"
    /\ response.raised = "HTTPException"
    /\ response.delivered.status_code = 503

\* C12: health_check reports prometheus_connected = true exactly when the
\* store answered the probe successfully (false when it is unreachable or the
\* probe fails), and status "healthy" exactly when the model is loaded and
\* the store answered.
C12_HealthReportsStore ==
    stage = "done" =>
        LET answered == /\ arg.answer.transport = "ok"
                        /\ arg.answer.http_status = 200
                        /\ arg.answer.body = "json"
                        /\ arg.answer.status = "success"
        IN  /\ ret.prometheus_connected <=> answered
            /\ ret.status = "healthy" <=> (ret.model_loaded /\ answered)

\* C13: when all six queries of a cycle fail and the model is loaded, the
\* snapshot is all zeros, the predictor is still called, on a vector of the
\* schema's length, and the outage itself makes nothing fail: whenever the
\* predictor returns a number for that vector the pipeline returns a
\* PredictionResponse with at least one replica, carrying the zero snapshot.
C13_OutageStillPredicts ==
    (stage = "done" /\ \A n \in MetricNameSet : arg.answers[n] \in FailedAnswers) =>
        /\ ret.predict_calls = 1
        /\ ret.raised = "none" <=> (Len(arg.names) = arg.m.n_features /\ arg.behaviour.kind = "value")
        /\ ret.raised = "none" =>
            /\ ret.value.kind = "PredictionResponse"
            /\ ret.value.predicted_pod_count >= 1
            /\ ret.inst.gauge = ret.value.predicted_pod_count
            /\ ret.inst.counter = arg.inst.counter + 1
            /\ \A n \in MetricNameSet : ret.value.metrics_used[n] = 0
            /\ Len(build_feature_vector(ret.value.metrics_used, arg.names)) = Len(arg.names)

\* C13's case: the six queries failed in six different ways and the
\* pipeline returned a replica count.
C13_Witness ==
    /\ stage = "done"
    /\ arg.answers["cpu_usage"] = AnswerUnreachable
    /\ arg.answers["memory_usage"] = AnswerTimeout
    /\ arg.answers["active_connections"] = AnswerBadSample
    /\ arg.behaviour = Returned(MaxRawNum)
    /\ ret.raised = "none"
    /\ ret.value.predicted_pod_count >= 1
    /\ ret.value.metrics_used["cpu_usage"] = 0

\* C14: in one acquisition cycle each of the six queries is sent to the
\* store exactly once; a query whose GET failed is not sent again in the
\* cycle, its field is the zero default even when a second GET would have
\* succeeded, and a query whose GET succeeded contributes that first answer.
C14_NoRetryInCycle ==
    stage = "done" =>
        /\ DOMAIN ret.sent = MetricNameSet
        /\ \A n \in MetricNameSet :
            /\ ret.sent[n] <= 1
            /\ ret.sent[n] = 1
            /\ ret.snapshot[n] = IF arg[n][1] \in FailedAnswers THEN 0 ELSE arg[n][1].result[1].value

\* C14's case: the cpu_usage query timed out and a retry would have got 40.
C14_Witness ==
    /\ stage = "done"
    /\ arg["cpu_usage"][1] = AnswerTimeout
    /\ arg["cpu_usage"][2] = AnswerValue(40)
    /\ arg["memory_usage"][1] = AnswerValue(40)
    /\ ret.sent["cpu_usage"] = 1
    /\ ret.snapshot["cpu_usage"] = 0
    /\ ret.snapshot["memory_usage"] = 40

\* C15: the replica count is the raw predictor output rounded to a nearest
\* integer (at most one half away; exactly halfway between two integers it is
\* the even one of the two) and then raised to 1 when that is below 1.
C15_NearestThenFloor ==
    (stage = "done" /\ ret.raised = "none") =>
        LET x == arg.behaviour.raw
            pods == ret.value.predicted_pod_count
        IN  \E k \in (0 - MaxRawNum - 1)..(MaxRawNum + 1) :
                /\ 2 * (k * RawDen - x) <= RawDen
                /\ 2 * (x - k * RawDen) <= RawDen
                /\ (2 * (k * RawDen - x) = RawDen \/ 2 * (x - k * RawDen) = RawDen) => k % 2 = 0
                /\ pods = IF k < 1 THEN 1 ELSE k

\* C15's case: a raw output above 1 and exactly halfway between two
\* integers, rounded down to the even one (2.5 gives 2).
C15_Witness ==
    /\ stage = "done"
    /\ ret.raised = "none"
    /\ 2 * (arg.behaviour.raw % RawDen) = RawDen
    /\ arg.behaviour.raw > 2 * RawDen
    /\ ret.value.predicted_pod_count * RawDen < arg.behaviour.raw
    /\ ret.value.predicted_pod_count % 2 = 0

\* C16: when the schema's length is not the number of features the predictor
\* was fitted on, every run of predict_from_prometheus ends in an error of
\* its own, HTTP 500, which is not the 503 of a missing model: a request to
\* /predict-from-prometheus gets that error after the predictor was called
\* once on the uncoerced vector, a tick ends as failed with it, no prediction
\* is substituted, and the counter and both gauges are never updated.
C16_MismatchReported ==
    (model # None /\ Len(expected_feature_names) # model.n_features) =>
        /\ prediction_counter = 0
        /\ prediction_gauge = 0
        /\ model_confidence_gauge = 0
        /\ published.cycles = 0
        /\ tick.outcome \in {"none", "error"}
        /\ tick.outcome = "error" => tick.raised = "HTTPException"
        /\ response.endpoint = "predict" =>
            /\ response.raised = "HTTPException"
            /\ response.delivered.kind = "HTTPException"
            /\ response.delivered.status_code = 500
            /\ response.delivered.status_code # 503
            /\ response.predict_calls = 1

\* C16's case: metadata names three features, the estimator was fitted on
\* two; a tick failed and a request got HTTP 500.
C16_Witness ==
    /\ model # None
    /\ model.n_features = 2
    /\ Len(expected_feature_names) = 3
    /\ tick.outcome = "error"
    /\ response.endpoint = "predict"
    /\ response.delivered.kind = "HTTPException"
    /\ response.delivered.status_code = 500
    /\ prediction_counter = 0

\* C17: when startup found a model but no feature list (no usable metadata
\* and no n_features_in_), the service runs on with the prediction path
\* disabled: the model is dropped, /health answers unhealthy with
\* model_loaded false, a prediction request gets 503, the runner goes on
\* forever from tick to sleep and back with every tick skipped, and no
\* acquisition, prediction or instrument update ever happens.
C17_SchemaUnavailable ==
    /\ [](startup_error = "feature_names" =>
            /\ phase = "running"
            /\ model = None
            /\ expected_feature_names = <<>>
            /\ acquisitions = 0
            /\ prediction_counter = 0
            /\ prediction_gauge = 0
            /\ model_confidence_gauge = 0
            /\ published.cycles = 0
            /\ pc.runner \in {"loop", "sleep"}
            /\ tick.outcome \in {"none", "skipped"}
            /\ (response.endpoint = "health" =>
                    /\ response.delivered.status = "unhealthy"
                    /\ response.delivered.model_loaded = FALSE)
            /\ (response.endpoint = "predict" => response.delivered.kind = "HTTPException")
            /\ (response.endpoint = "scrape" => response.delivered.prediction_requests_total = 0))
    /\ []((startup_error = "feature_names" /\ pc.runner = "loop") => <>(pc.runner = "sleep" /\ tick.outcome = "skipped"))
    /\ []((startup_error = "feature_names" /\ pc.runner = "sleep") => <>(pc.runner = "loop"))

\* C17's case: the schema was unavailable at startup, the runner is back at
\* the top of its loop after a skipped tick, and /health answered unhealthy.
C17_Witness ==
    /\ startup_error = "feature_names"
    /\ pc.runner = "loop"
    /\ tick.outcome = "skipped"
    /\ response.endpoint = "health"
    /\ response.delivered.status = "unhealthy"
    /\ response.delivered.model_loaded = FALSE

\* C18: a scrape of /prometheus-metrics, at whatever point between the steps
\* of the runner's cycle and of a request in flight, reads the counter and
\* both gauges as the runs that have returned a result left them: the number
\* of those runs and the replica count and confidence of the last of them,
\* all three from the same run, and nothing of a run still in flight or
\* failed; the same holds of the instruments between any two steps.
C18_ScrapeSeesWholePublish ==
    /\ [](/\ prediction_counter = published.cycles
          /\ prediction_gauge = published.pods
          /\ model_confidence_gauge = published.confidence)
    /\ [][Scrape =>
            /\ response'.delivered.kind = "Exposition"
            /\ response'.delivered.prediction_requests_total = published.cycles
            /\ response'.delivered.predicted_pod_count = published.pods
            /\ response'.delivered.model_confidence = published.confidence]_vars

\* C18's case: a scrape while the runner's cycle is in flight, after an
\* earlier run published 2 replicas: the scrape shows that run, whole.
C18_Witness ==
    /\ response.endpoint = "scrape"
    /\ pc.runner = "await_metrics"
    /\ response.delivered.prediction_requests_total = 1
    /\ response.delivered.predicted_pod_count = 2
    /\ response.delivered.model_confidence = 80
    /\ published = [cycles |-> 1, pods |-> 2, confidence |-> 80]

C20_RetryContract ==
    LET succeeded(i) == /\ arg.answers[i].transport = "ok"
                        /\ arg.answers[i].http_status = 200
                        /\ arg.answers[i].body = "json"
                        /\ arg.answers[i].status = "success"
    IN  /\ ret.gets <= arg.max_retries
        /\ stage = "done" =>
            /\ ret.sleeps = IF ret.gets = 0 THEN 0 ELSE ret.gets - 1
            /\ ret.returned = "data" =>
                /\ ret.gets >= 1
                /\ succeeded(ret.gets)
                /\ \A i \in 1..(ret.gets - 1) : ~succeeded(i)
            /\ ret.returned = "None" <=>
                /\ ret.gets = arg.max_retries
                /\ \A i \in 1..arg.max_retries : ~succeeded(i)

\* C21: after load_model_and_features returns, whatever it found (a model
\* and a schema, no model file, no or unreadable metadata, no
\* n_features_in_ or one that is 0), the global model is not None only if
\* expected_feature_names is non-empty, and the returned flag is True
\* exactly when model is not None.
C21_LoadPostcondition ==
    stage = "done" =>
        /\ ret.model # None => ret.expected_feature_names # <<>>
        /\ ret.ok <=> ret.model # None
        /\ ret.model # None => ret.model = arg.file.estimator

\* C21's case: the model file loads, the metadata is unreadable and the
\* estimator has no n_features_in_: the model is dropped and False returned.
C21_Witness ==
    /\ stage = "done"
    /\ arg.file.present
    /\ ~arg.file.estimator.exposes_n
    /\ arg.meta.state = "unreadable"
    /\ ret.model = None
    /\ ~ret.ok
    /\ ret.expected_feature_names = <<>>

====
